---- MODULE Spec2Model ----
(***************************************************************************)
(* CertLRUCache (certmanager/lru.go): an LRU cache of TLS certificates     *)
(* with per-entry expiry, one mutex, and a background sweep goroutine.     *)
(*                                                                         *)
(* Every statement of Get, Put, Purge and the sweep loop is a function on  *)
(* a machine state [cache, list, f, pc]: the two shared structures, the    *)
(* running goroutine's frame and its position.  Spec runs the statements   *)
(* one at a time between c.Lock() and c.Unlock(), with several callers     *)
(* and the sweeper interleaved.  SeqSpec, TtlSpec, RefreshSpec and        *)
(* LruSpec run each critical section in one step (the same statements,     *)
(* composed by Run) and keep history variables about the calls made so     *)
(* far: the last call and its result, the latest Put of one host, the      *)
(* hosts given to Put.  TouchSpec, PurgeSpec and ClockSpec do the same     *)
(* with the touch order, the Purges and Puts alone.  FairSpec and          *)
(* ExpireSpec are statement-level again, with fairness of the goroutines,  *)
(* the mutex and the ticker.                                               *)
(*                                                                         *)
(* Time is counted in ticks of 1/Sub second: a time.Time is a number of    *)
(* ticks and Unix() truncates it to whole seconds.                         *)
(***************************************************************************)
EXTENDS Integers, Sequences, FiniteSets, TLC

VARIABLES
    maxSize,          \* c.maxSize
    cleanupInterval,  \* the ticker's period, in ticks
    cache,            \* c.cache: host -> cacheEntry
    list,             \* c.list: the elements, front to back
    holder,           \* the goroutines inside the mutex
    pc,               \* each goroutine's position
    frame,            \* each goroutine's arguments and locals
    now,              \* the wall clock, in ticks
    nextTick,         \* when the ticker fires next
    tickC,            \* ticker.C, a channel of capacity 1: ticks buffered
    last,             \* history: the last call that returned
    watch,            \* history: the latest Put of WatchKey and what followed
    puts,             \* history: the keys Put so far, while all were distinct
    fresh,            \* history: the keys Put since the last Purge
    snap,             \* history: the state when the mutex was last taken
    touch,            \* history: the resident keys, last touched first
    purged            \* history: whether a Purge has returned

vars == <<maxSize, cleanupInterval, cache, list, holder, pc, frame, now,
          nextTick, tickC, last, watch, puts, fresh, snap, touch, purged>>

----------------------------------------------------------------------------
\* Bounds of the model.
MaxTime == 4
Sub == 2
MaxSizeBound == 2
MaxInterval == 2

Keys == {"A", "B"}
Certs == {"v1"}
Callers == {"g1", "g2"}
Sweeper == "sweeper"
Procs == Callers \cup {Sweeper}
\* Every instant, and the instants on a whole second.
Times == 0..MaxTime
Seconds == {t \in Times : t % Sub = 0}

\* A nil *tls.Certificate, a nil *list.Element, a zero cacheEntry.
NilCert == "nil"
NilElem == [id |-> 0, Value |-> "nil"]
NoEntry == [cert |-> NilCert, expiresAt |-> 0, listElement |-> NilElem]
NoFrame == [op |-> "none", host |-> "nil", expiresAt |-> 0, cert |-> NilCert,
            entry |-> NoEntry, e |-> NilElem, todo |-> {}, ret |-> NilCert]

\* time.Time.Unix(): whole seconds, the sub-second part dropped.
Unix(t) == t \div Sub

----------------------------------------------------------------------------
\* container/list, as the cache uses it.  An element is a pointer (id) with
\* its Value; it belongs to the list (e.list == l) iff it is in the sequence.

Elems(l) == {l[i] : i \in 1..Len(l)}

\* l.Remove(e): unlinks e if it is an element of l, else does nothing.
ListRemove(l, e) == SelectSeq(l, LAMBDA x : x # e)

\* l.MoveToFront(e): no-op if e is not an element of l.
ListMoveToFront(l, e) == IF e \in Elems(l) THEN <<e>> \o ListRemove(l, e) ELSE l

\* l.Back(): the last element, or nil.
ListBack(l) == IF Len(l) = 0 THEN NilElem ELSE l[Len(l)]

\* The pointers a machine state still references: the list's elements, the
\* map's handles, the frame's locals, and those other goroutines hold (pin).
UsedIds(m, pin) ==
    {x.id : x \in Elems(m.list)}
      \cup {m.cache[k].listElement.id : k \in DOMAIN m.cache}
      \cup {m.f.entry.listElement.id, m.f.e.id}
      \cup pin

\* The element l.PushFront(v) allocates: a pointer no live reference has.
NewElem(m, pin, v) ==
    LET used == UsedIds(m, pin) IN
    [id |-> CHOOSE i \in 1..(Cardinality(used) + 1) :
                /\ i \notin used
                /\ \A j \in 1..(i - 1) : j \in used,
     Value |-> v]

\* l.PushFront(v), given the new element
ListPushFront(l, el) == <<el>> \o l

\* delete(m, k)
MapDelete(mp, k) == [x \in DOMAIN mp \ {k} |-> mp[x]]

\* m[k] = v
MapStore(mp, k, v) == [x \in DOMAIN mp \cup {k} |-> IF x = k THEN v ELSE mp[x]]

----------------------------------------------------------------------------
\* The statements.  m is the machine state; cx the context a statement reads:
\* cx.maxSize, cx.now (time.Now()) and cx.pin.

\* if time.Now().Unix() > entry.expiresAt
Expired(t, entry) == Unix(t) > entry.expiresAt

\* Get: entry, ok := c.cache[host]; if !ok { return nil }
GetLookup(m) ==
    IF m.f.host \in DOMAIN m.cache
      THEN [m EXCEPT !.f.entry = m.cache[m.f.host], !.pc = "get_check"]
      ELSE [m EXCEPT !.f.ret = NilCert, !.pc = "unlock"]

GetCheck_ge(m, cx) ==
    [m EXCEPT !.pc = IF Unix(cx.now) >= m.f.entry.expiresAt THEN "get_remove" ELSE "get_move"]

\* Get: if time.Now().Unix() > entry.expiresAt
GetCheck(m, cx) ==
    [m EXCEPT !.pc = IF Expired(cx.now, m.f.entry) THEN "get_remove" ELSE "get_move"]

GetRemove_keep(m) == [m EXCEPT !.pc = "get_delete"]

\* Get: c.list.Remove(entry.listElement)
GetRemove(m) ==
    [m EXCEPT !.list = ListRemove(m.list, m.f.entry.listElement), !.pc = "get_delete"]

GetDelete_keep(m) ==
    [m EXCEPT !.f.ret = NilCert, !.pc = "unlock"]

\* Get: delete(c.cache, host); return nil
GetDelete(m) ==
    [m EXCEPT !.cache = MapDelete(m.cache, m.f.host), !.f.ret = NilCert, !.pc = "unlock"]

GetMove_still(m) ==
    [m EXCEPT !.f.ret = m.f.entry.cert, !.pc = "unlock"]

\* Get: c.list.MoveToFront(entry.listElement); return entry.cert
GetMove(m) ==
    [m EXCEPT !.list = ListMoveToFront(m.list, m.f.entry.listElement),
              !.f.ret = m.f.entry.cert, !.pc = "unlock"]

PutLookup_miss(m) == [m EXCEPT !.pc = "put_cap"]

\* Put: if e, ok := c.cache[host]; ok
PutLookup(m) ==
    IF m.f.host \in DOMAIN m.cache
      THEN [m EXCEPT !.f.entry = m.cache[m.f.host], !.pc = "put_move"]
      ELSE [m EXCEPT !.pc = "put_cap"]

PutMove_still(m) == [m EXCEPT !.pc = "put_store"]

\* Put: c.list.MoveToFront(e.listElement)
PutMove(m) ==
    [m EXCEPT !.list = ListMoveToFront(m.list, m.f.entry.listElement), !.pc = "put_store"]

NewEntry_ceil(f, el) ==
    [cert |-> f.cert, expiresAt |-> (f.expiresAt + Sub - 1) \div Sub, listElement |-> el]

\* cacheEntry{cert: cert, expiresAt: expiresAt.Unix(), listElement: el}
NewEntry(f, el) == [cert |-> f.cert, expiresAt |-> Unix(f.expiresAt), listElement |-> el]

PutStore_stale(m) ==
    [m EXCEPT !.cache = MapStore(m.cache, m.f.host,
                  [NewEntry(m.f, m.f.entry.listElement) EXCEPT !.cert = m.f.entry.cert]),
              !.pc = "unlock"]

\* Put: c.cache[host] = cacheEntry{..., listElement: e.listElement}; return
PutStore(m) ==
    [m EXCEPT !.cache = MapStore(m.cache, m.f.host, NewEntry(m.f, m.f.entry.listElement)),
              !.pc = "unlock"]

PutCap_late(m, cx) ==
    [m EXCEPT !.pc = IF Len(m.list) >= cx.maxSize /\ cx.now > 0
                       THEN "put_back" ELSE "put_push"]

PutCap_gt(m, cx) ==
    [m EXCEPT !.pc = IF Len(m.list) > cx.maxSize THEN "put_back" ELSE "put_push"]

\* Put: if c.list.Len() >= c.maxSize
PutCap(m, cx) ==
    [m EXCEPT !.pc = IF Len(m.list) >= cx.maxSize THEN "put_back" ELSE "put_push"]

PutBack_front(m) ==
    [m EXCEPT !.f.e = IF m.list = << >> THEN NilElem ELSE Head(m.list), !.pc = "put_evict"]

\* Put: e := c.list.Back()
PutBack(m) ==
    [m EXCEPT !.f.e = ListBack(m.list), !.pc = "put_evict"]

PutEvict_skip(m) ==
    IF m.f.e = NilElem THEN [m EXCEPT !.pc = "panic"] ELSE [m EXCEPT !.pc = "put_delete"]

\* Put: c.list.Remove(e); a nil e is dereferenced and the goroutine panics.
PutEvict(m) ==
    IF m.f.e = NilElem
      THEN [m EXCEPT !.pc = "panic"]
      ELSE [m EXCEPT !.list = ListRemove(m.list, m.f.e), !.pc = "put_delete"]

PutDelete_keep(m) == [m EXCEPT !.pc = "put_push"]

\* Put: delete(c.cache, e.Value.(string))
PutDelete(m) ==
    [m EXCEPT !.cache = MapDelete(m.cache, m.f.e.Value), !.pc = "put_push"]

\* Put: listElement := c.list.PushFront(host)
PutPush(m, cx) ==
    LET el == NewElem(m, cx.pin, m.f.host) IN
    [m EXCEPT !.list = ListPushFront(m.list, el), !.f.e = el, !.pc = "put_insert"]

\* Put: c.cache[host] = cacheEntry{..., listElement: listElement}
PutInsert(m) ==
    [m EXCEPT !.cache = MapStore(m.cache, m.f.host, NewEntry(m.f, m.f.e)), !.pc = "unlock"]

PurgeCache_keep(m) == [m EXCEPT !.pc = "purge_list"]

\* Purge: c.cache = make(map[string]cacheEntry)
PurgeCache(m) == [m EXCEPT !.cache = << >>, !.pc = "purge_list"]

PurgeList_keep(m) == [m EXCEPT !.pc = "unlock"]

\* Purge: c.list = list.New()
PurgeList(m) == [m EXCEPT !.list = << >>, !.pc = "unlock"]

SweepVisit_never(m, cx, k) == [m EXCEPT !.f.todo = @ \ {k}]

\* Sweep: one iteration of for e, entry := range c.cache, on key k;
\* if time.Now().Unix() > entry.expiresAt.  When the test fails the iteration
\* ends and its e and entry with it.
SweepVisit(m, cx, k) ==
    IF Expired(cx.now, m.cache[k])
      THEN [m EXCEPT !.f.host = k, !.f.entry = m.cache[k], !.f.todo = @ \ {k},
                     !.pc = "sweep_remove"]
      ELSE [m EXCEPT !.f.todo = @ \ {k}]

SweepRemove_keep(m) == [m EXCEPT !.pc = "sweep_delete"]

\* Sweep: c.list.Remove(entry.listElement)
SweepRemove(m) ==
    [m EXCEPT !.list = ListRemove(m.list, m.f.entry.listElement), !.pc = "sweep_delete"]

SweepDelete_keep(m) == [m EXCEPT !.pc = "range"]

\* Sweep: delete(c.cache, e)
SweepDelete(m) ==
    [m EXCEPT !.cache = MapDelete(m.cache, m.f.host),
              !.f.host = "nil", !.f.entry = NoEntry, !.pc = "range"]

\* The statement at m.pc.
Step(m, cx) ==
    CASE m.pc = "get_lookup"   -> GetLookup(m)
      [] m.pc = "get_check"    -> GetCheck(m, cx)
      [] m.pc = "get_remove"   -> GetRemove(m)
      [] m.pc = "get_delete"   -> GetDelete(m)
      [] m.pc = "get_move"     -> GetMove(m)
      [] m.pc = "put_lookup"   -> PutLookup(m)
      [] m.pc = "put_move"     -> PutMove(m)
      [] m.pc = "put_store"    -> PutStore(m)
      [] m.pc = "put_cap"      -> PutCap(m, cx)
      [] m.pc = "put_back"     -> PutBack(m)
      [] m.pc = "put_evict"    -> PutEvict(m)
      [] m.pc = "put_delete"   -> PutDelete(m)
      [] m.pc = "put_push"     -> PutPush(m, cx)
      [] m.pc = "put_insert"   -> PutInsert(m)
      [] m.pc = "purge_cache"  -> PurgeCache(m)
      [] m.pc = "purge_list"   -> PurgeList(m)
      [] m.pc = "sweep_remove" -> SweepRemove(m)
      [] m.pc = "sweep_delete" -> SweepDelete(m)

StepLabels == {"get_lookup", "get_check", "get_remove", "get_delete", "get_move",
               "put_lookup", "put_move", "put_store", "put_cap", "put_back",
               "put_evict", "put_delete", "put_push", "put_insert",
               "purge_cache", "purge_list", "sweep_remove", "sweep_delete"}

\* A critical section run to its end: the deferred unlock, a panic, or the
\* sweeper's next iteration.
RECURSIVE Run(_, _)
Run(m, cx) == IF m.pc \in StepLabels THEN LET n == Step(m, cx) IN Run(n, cx) ELSE m

\* The frames of Get(host), Put(host, expiresAt, cert) and Purge() at entry.
GetFrame(k) == [NoFrame EXCEPT !.op = "Get", !.host = k]
PutFrame(k, t, c) == [NoFrame EXCEPT !.op = "Put", !.host = k, !.expiresAt = t, !.cert = c]
PurgeFrame == [NoFrame EXCEPT !.op = "Purge"]
SweepFrame == [NoFrame EXCEPT !.op = "Sweep", !.todo = DOMAIN cache]

EntryLabel(f) ==
    CASE f.op = "Get" -> "get_lookup"
      [] f.op = "Put" -> "put_lookup"
      [] f.op = "Purge" -> "purge_cache"
      [] f.op = "Sweep" -> "range"

----------------------------------------------------------------------------
\* History variables.  None is read by a statement.
NoLast == [op |-> "none", host |-> "nil", ret |-> NilCert, n |-> 0, bump |-> "nil"]
NoWatch == [at |-> -1, exp |-> 0, cert |-> NilCert, old |-> NilCert, ops |-> 0,
            sweeps |-> 0, late |-> FALSE]
NoSnap == [cache |-> << >>, list |-> << >>, f |-> NoFrame, now |-> 0]
NoPuts == [keys |-> << >>, swept |-> FALSE]
WatchKey == "A"

\* NewCertLRUCache(maxSize, cleanupInterval): empty map, empty list, and the
\* sweep goroutine waiting on its new ticker.
New(sizes, intervals) ==
    /\ maxSize \in sizes
    /\ cleanupInterval \in intervals
    /\ cache = << >>
    /\ list = << >>
    /\ holder = {}
    /\ pc = [p \in Procs |-> IF p = Sweeper THEN "recv" ELSE "idle"]
    /\ frame = [p \in Procs |-> NoFrame]
    /\ now = 0
    /\ nextTick = cleanupInterval
    /\ tickC = 0
    /\ last = NoLast
    /\ watch = NoWatch
    /\ puts = NoPuts
    /\ fresh = {}
    /\ snap = NoSnap
    /\ touch = << >>
    /\ purged = FALSE

Init == New(0..MaxSizeBound, 1..MaxInterval)

\* Goroutine p's machine state, and what its statements read.
Machine(p) == [cache |-> cache, list |-> list, f |-> frame[p], pc |-> pc[p]]
Pins(p) == UNION {{frame[q].entry.listElement.id, frame[q].e.id} : q \in Procs \ {p}}
Context(p) == [maxSize |-> maxSize, now |-> now, pin |-> Pins(p)]

\* Goroutine p's machine state written back.
Commit(p, m) ==
    /\ cache' = m.cache
    /\ list' = m.list
    /\ frame' = [frame EXCEPT ![p] = m.f]
    /\ pc' = [pc EXCEPT ![p] = m.pc]

UNCH_env == UNCHANGED <<maxSize, cleanupInterval, now, nextTick, tickC>>
UNCH_hist == UNCHANGED <<last, watch, puts, fresh, touch, purged>>

\* snap, when c.Lock() returns in the call with frame f: the structures as
\* the critical section finds them, its frame at entry, and the time.
Snapshot(f) == [cache |-> cache, list |-> list, f |-> f, now |-> now]

MutexFree_open == TRUE

\* sync.Mutex.Lock() returns only while no goroutine holds the mutex.
MutexFree == holder = {}

\* A caller starts Get, Put or Purge and blocks in c.Lock().
Call(p) ==
    /\ pc[p] = "idle"
    /\ pc' = [pc EXCEPT ![p] = "lock"]
    /\ UNCHANGED <<cache, list, frame, holder>>
    /\ UNCH_env
    /\ UNCH_hist
    /\ UNCHANGED snap

\* c.Lock() returns in the call with frame f.
Lock(p, f) ==
    /\ pc[p] = "lock"
    /\ MutexFree
    /\ holder' = holder \cup {p}
    /\ frame' = [frame EXCEPT ![p] = f]
    /\ pc' = [pc EXCEPT ![p] = EntryLabel(f)]
    /\ UNCHANGED <<cache, list>>
    /\ UNCH_env
    /\ UNCH_hist
    /\ snap' = Snapshot(f)

\* One statement of p's critical section.
Stmt(p) ==
    /\ pc[p] \in StepLabels
    /\ Commit(p, Step(Machine(p), Context(p)))
    /\ UNCHANGED holder
    /\ UNCH_env
    /\ UNCH_hist
    /\ UNCHANGED snap

\* The keys Put since the last Purge, once the call with frame f has returned.
FreshAfter(f) ==
    CASE f.op = "Put" -> fresh \cup {f.host}
      [] f.op = "Purge" -> {}
      [] OTHER -> fresh

Unlock_held(p) ==
    /\ pc[p] = "unlock"
    /\ frame' = [frame EXCEPT ![p] = NoFrame]
    /\ pc' = [pc EXCEPT ![p] = "idle"]
    /\ fresh' = FreshAfter(frame[p])
    /\ snap' = NoSnap
    /\ UNCHANGED <<cache, list, last, watch, puts, touch, purged, holder>>
    /\ UNCH_env

\* The deferred c.Unlock() of Get, Put and Purge: the call returns.
Unlock(p) ==
    /\ pc[p] = "unlock"
    /\ holder' = holder \ {p}
    /\ frame' = [frame EXCEPT ![p] = NoFrame]
    /\ pc' = [pc EXCEPT ![p] = "idle"]
    /\ fresh' = FreshAfter(frame[p])
    /\ UNCHANGED <<cache, list, last, watch, puts, touch, purged>>
    /\ UNCH_env
    /\ snap' = NoSnap

\* The deferred c.Unlock() runs while Put's panic unwinds; the caller is gone.
PanicUnlock(p) ==
    /\ pc[p] = "panic"
    /\ holder' = holder \ {p}
    /\ frame' = [frame EXCEPT ![p] = NoFrame]
    /\ pc' = [pc EXCEPT ![p] = "crashed"]
    /\ UNCHANGED <<cache, list>>
    /\ UNCH_env
    /\ UNCH_hist
    /\ snap' = NoSnap

\* The sweep goroutine: for range ticker.C receives a tick.
SweepRecv ==
    /\ pc[Sweeper] = "recv"
    /\ tickC = 1
    /\ tickC' = 0
    /\ pc' = [pc EXCEPT ![Sweeper] = "lock"]
    /\ UNCHANGED <<cache, list, frame, holder, maxSize, cleanupInterval, now, nextTick>>
    /\ UNCH_hist
    /\ UNCHANGED snap

\* Sweep: c.Lock() returns and the range over c.cache starts.
SweepLock ==
    /\ pc[Sweeper] = "lock"
    /\ MutexFree
    /\ holder' = holder \cup {Sweeper}
    /\ frame' = [frame EXCEPT ![Sweeper] = SweepFrame]
    /\ pc' = [pc EXCEPT ![Sweeper] = "range"]
    /\ UNCHANGED <<cache, list>>
    /\ UNCH_env
    /\ snap' = Snapshot(SweepFrame)

\* Sweep: the range produces a key not yet produced and still in the map
\* (Go fixes no iteration order).
SweepIter(k) ==
    /\ pc[Sweeper] = "range"
    /\ k \in frame[Sweeper].todo \cap DOMAIN cache
    /\ Commit(Sweeper, SweepVisit(Machine(Sweeper), Context(Sweeper), k))
    /\ UNCHANGED holder
    /\ UNCH_env
    /\ UNCH_hist
    /\ UNCHANGED snap

\* Sweep: one removal statement.
SweepStmt ==
    /\ pc[Sweeper] \in {"sweep_remove", "sweep_delete"}
    /\ Commit(Sweeper, Step(Machine(Sweeper), Context(Sweeper)))
    /\ UNCHANGED holder
    /\ UNCH_env
    /\ UNCH_hist
    /\ UNCHANGED snap

\* Sweep: the range is exhausted; c.Unlock().
SweepUnlock ==
    /\ pc[Sweeper] = "range"
    /\ frame[Sweeper].todo \cap DOMAIN cache = {}
    /\ holder' = holder \ {Sweeper}
    /\ frame' = [frame EXCEPT ![Sweeper] = NoFrame]
    /\ pc' = [pc EXCEPT ![Sweeper] = "recv"]
    /\ UNCHANGED <<cache, list>>
    /\ UNCH_env
    /\ snap' = NoSnap

\* The clock advances one tick; when the ticker's period has elapsed it sends
\* on ticker.C without blocking (a tick is dropped while one is buffered).
Tick ==
    /\ now < MaxTime
    /\ now' = now + 1
    /\ IF now + 1 = nextTick
         THEN /\ tickC' = 1
              /\ nextTick' = nextTick + cleanupInterval
         ELSE UNCHANGED <<tickC, nextTick>>
    /\ UNCHANGED <<maxSize, cleanupInterval, cache, list, holder, pc, frame>>
    /\ UNCH_hist
    /\ UNCHANGED snap

\* The sweeper, one statement at a time.
SweepNext ==
    \/ SweepRecv
    \/ SweepLock /\ UNCH_hist
    \/ \E k \in Keys : SweepIter(k)
    \/ SweepStmt
    \/ SweepUnlock /\ UNCH_hist

\* Several callers and the sweeper, one statement at a time.  Put is given
\* expiries on whole seconds: all it does with one is truncate it.
Next ==
    \/ \E p \in Callers : Call(p)
    \/ \E p \in Callers, k \in Keys : Lock(p, GetFrame(k))
    \/ \E p \in Callers, k \in Keys, t \in Seconds, c \in Certs : Lock(p, PutFrame(k, t, c))
    \/ \E p \in Callers : Lock(p, PurgeFrame)
    \/ \E p \in Callers : Stmt(p)
    \/ \E p \in Callers : Unlock(p)
    \/ \E p \in Callers : PanicUnlock(p)
    \/ SweepNext
    \/ Tick

Spec == Init /\ [][Next]_vars

\* c.Lock() returns in some call of p; Put is given the expiry 0.
Acquire(p) ==
    \/ \E k \in Keys : Lock(p, GetFrame(k))
    \/ \E k \in Keys, c \in Certs : Lock(p, PutFrame(k, 0, c))
    \/ Lock(p, PurgeFrame)

\* The steps of the goroutine that holds the mutex, up to its Unlock.
Held ==
    \/ \E p \in Callers : Stmt(p) \/ Unlock(p) \/ PanicUnlock(p)
    \/ \E k \in Keys : SweepIter(k)
    \/ SweepStmt
    \/ SweepUnlock /\ UNCH_hist

\* The goroutine that holds the mutex keeps running, and the mutex is fair:
\* a caller blocked in Lock is not passed over forever (sync.Mutex hands the
\* mutex to a waiter that has waited long).
Fairness ==
    /\ WF_vars(Held)
    /\ \A p \in Callers : SF_vars(Acquire(p))

\* Several callers and the sweeper, one statement at a time, until the
\* entries (all with expiry 0) have expired.
FairNext ==
    \/ \E p \in Callers : Call(p)
    \/ \E p \in Callers : Acquire(p)
    \/ Held
    \/ SweepRecv
    \/ SweepLock /\ UNCH_hist
    \/ Tick /\ now < Sub

FairInit == New(0..1, {1})

FairSpec == FairInit /\ [][FairNext]_vars /\ Fairness

\* Time goes on past the last instant counted: every instant from Sub on is
\* counted as Sub (the entries, all with expiry 0, have expired by then), and
\* the ticker keeps sending on ticker.C.
TickLate ==
    /\ now = Sub
    /\ tickC' = 1
    /\ UNCHANGED <<maxSize, cleanupInterval, cache, list, holder, pc, frame, now, nextTick>>
    /\ UNCH_hist
    /\ UNCHANGED snap

Clock == (Tick /\ now < Sub) \/ TickLate

ExpireNext == FairNext \/ TickLate

\* Time advances, the sweep goroutine runs, and the mutex is fair to it too.
ExpireFairness ==
    /\ Fairness
    /\ WF_vars(Clock)
    /\ WF_vars(SweepRecv)
    /\ SF_vars(SweepLock /\ UNCH_hist)

ExpireInit == New(0..MaxSizeBound, {1})

ExpireSpec == ExpireInit /\ [][ExpireNext]_vars /\ ExpireFairness

----------------------------------------------------------------------------
\* One caller at a time: a whole call in one step.  The mutex makes the
\* statements of a call contiguous, so the call's effect is Run from its
\* first statement.

Caller == "g1"
Keys3 == {"A", "B", "C"}
Keys4 == {"A", "B", "C", "D"}
Certs2 == {"v1", "v2"}

Result(p, f) ==
    Run([cache |-> cache, list |-> list, f |-> f, pc |-> EntryLabel(f)], Context(p))

\* c.Lock(), the statements of the call with frame f, which end in machine
\* state m, the deferred c.Unlock().
Atomic(p, f, m) ==
    /\ pc[p] = "idle"
    /\ MutexFree
    /\ cache' = m.cache
    /\ list' = m.list
    /\ pc' = [pc EXCEPT ![p] = IF m.pc = "panic" THEN "crashed" ELSE "idle"]
    /\ UNCHANGED <<frame, holder>>
    /\ UNCH_env
    /\ UNCHANGED snap

\* A whole pass of the sweep at one instant: the iterations in some order.
\* The order does not change what a pass at one instant leaves (each key is
\* tested against the same clock, and removals of different keys commute).
RECURSIVE RunSweep(_, _)
RunSweep(m, cx) ==
    IF m.f.todo \cap DOMAIN m.cache = {} THEN m
    ELSE RunSweep(Run(SweepVisit(m, cx, CHOOSE k \in m.f.todo \cap DOMAIN m.cache : TRUE), cx), cx)

SweepResult ==
    RunSweep([cache |-> cache, list |-> list, f |-> SweepFrame, pc |-> "range"],
             Context(Sweeper))

\* The sweep goroutine receives a tick, takes the mutex, sweeps, releases it.
SweepTick ==
    /\ pc[Sweeper] = "recv"
    /\ tickC = 1
    /\ MutexFree
    /\ tickC' = 0
    /\ \E m \in {SweepResult} : cache' = m.cache /\ list' = m.list
    /\ UNCHANGED <<pc, frame, holder, maxSize, cleanupInterval, now, nextTick, snap>>

Min(a, b) == IF a < b THEN a ELSE b

\* last, after the call with frame f returned from machine state m: the
\* call, what it returned, and (bump) the key the call before it hit in Get.
LastAfter(f, m) ==
    IF m.pc = "panic" THEN last
    ELSE [op |-> f.op, host |-> f.host, ret |-> m.f.ret, n |-> 1 - last.n,
          bump |-> IF last.op = "Get" /\ last.ret # NilCert THEN last.host ELSE "nil"]

\* A call, with last kept.
SeqCall(f) ==
    \E m \in {Result(Caller, f)} :
    /\ Atomic(Caller, f, m)
    /\ last' = LastAfter(f, m)
    /\ UNCHANGED <<watch, puts, fresh, touch, purged>>

\* One caller's calls and the sweeper, with last kept.
SeqNext ==
    \/ \E k \in Keys3 : SeqCall(GetFrame(k))
    \/ \E k \in Keys3, t \in Seconds, c \in Certs : SeqCall(PutFrame(k, t, c))
    \/ SeqCall(PurgeFrame)
    \/ SweepTick /\ UNCH_hist
    \/ Tick

SeqInit == New(0..MaxSizeBound, {1})

SeqSpec == SeqInit /\ [][SeqNext]_vars

\* watch, after the call with frame f: a Put of WatchKey starts a new record
\* (when, and the expiry given); any other call counts as a call since (at
\* most 2 are counted).
TtlAfter(f, m) ==
    IF m.pc = "panic" THEN watch
    ELSE IF f.op = "Put" /\ f.host = WatchKey
      THEN [NoWatch EXCEPT !.at = now, !.exp = f.expiresAt]
    ELSE IF watch = NoWatch THEN watch
    ELSE [watch EXCEPT !.ops = Min(2, @ + 1)]

\* watch, after a sweep: sweeps completed since the Put (at most 2 are
\* counted), and whether one of them ran in a second after the expiry's.
TtlSwept ==
    IF watch = NoWatch THEN watch
    ELSE [watch EXCEPT !.sweeps = Min(2, @ + 1),
                       !.late = @ \/ Unix(now) > Unix(watch.exp)]

\* A call, with last and watch kept.
TtlCall(f) ==
    \E m \in {Result(Caller, f)} :
    /\ Atomic(Caller, f, m)
    /\ last' = LastAfter(f, m)
    /\ watch' = TtlAfter(f, m)
    /\ UNCHANGED <<puts, fresh, touch, purged>>

\* The expiries Put is given here: some ticks after now.
MaxEps == 2

\* One caller's calls and the sweeper, with last and watch kept.
TtlNext ==
    \/ \E k \in Keys : TtlCall(GetFrame(k))
    \/ \E k \in Keys, d \in 1..MaxEps, c \in Certs : TtlCall(PutFrame(k, now + d, c))
    \/ TtlCall(PurgeFrame)
    \/ SweepTick /\ watch' = TtlSwept /\ UNCHANGED <<last, puts, fresh, touch, purged>>
    \/ Tick

TtlInit == New(1..MaxSizeBound, 1..MaxInterval)

TtlSpec == TtlInit /\ [][TtlNext]_vars

\* watch, after the call with frame f: a Put of WatchKey starts a new record
\* (the expiry and certificate given, the certificate replaced, and in late
\* whether the entry replaced had expired); any other call counts as a call
\* since.
RefreshAfter(f, m) ==
    IF m.pc = "panic" THEN watch
    ELSE IF f.op = "Put" /\ f.host = WatchKey
      THEN [NoWatch EXCEPT !.at = 0, !.exp = f.expiresAt, !.cert = f.cert,
                           !.old = IF WatchKey \in DOMAIN cache
                                     THEN cache[WatchKey].cert ELSE NilCert,
                           !.late = /\ WatchKey \in DOMAIN cache
                                    /\ Expired(now, cache[WatchKey])]
    ELSE IF watch = NoWatch THEN watch
    ELSE [watch EXCEPT !.ops = 1]

\* A call, with last and watch kept.
RefreshCall(f) ==
    \E m \in {Result(Caller, f)} :
    /\ Atomic(Caller, f, m)
    /\ last' = LastAfter(f, m)
    /\ watch' = RefreshAfter(f, m)
    /\ UNCHANGED <<puts, fresh, touch, purged>>

\* One caller's calls and the sweeper, with last and watch kept.
RefreshNext ==
    \/ \E k \in Keys : RefreshCall(GetFrame(k))
    \/ \E k \in Keys, t \in Seconds, c \in Certs2 : RefreshCall(PutFrame(k, t, c))
    \/ RefreshCall(PurgeFrame)
    \/ SweepTick /\ UNCH_hist
    \/ Tick

RefreshSpec == SeqInit /\ [][RefreshNext]_vars

\* The keys of a sequence of keys.
Range(q) == {q[i] : i \in 1..Len(q)}

\* puts, after the Put with frame f: the keys given to Put so far, in order.
PutsAfter(f, m) ==
    IF m.pc = "panic" THEN puts ELSE [puts EXCEPT !.keys = Append(@, f.host)]

\* puts, after a sweep that leaves machine state m: whether a sweep has
\* removed an entry.
PutsSwept(m) == [puts EXCEPT !.swept = @ \/ DOMAIN m.cache # DOMAIN cache]

\* A Put, with puts kept.
LruCall(f) ==
    \E m \in {Result(Caller, f)} :
    /\ Atomic(Caller, f, m)
    /\ puts' = PutsAfter(f, m)
    /\ UNCHANGED <<last, watch, fresh, touch, purged>>

\* The sweep goroutine's pass, with puts kept.
LruSweep ==
    /\ SweepTick
    /\ puts' = PutsSwept(SweepResult)
    /\ UNCHANGED <<last, watch, fresh, touch, purged>>

\* Puts of keys not given before, and the sweeper.
LruNext ==
    \/ \E k \in Keys4 \ Range(puts.keys), t \in Seconds, c \in Certs :
         LruCall(PutFrame(k, t, c))
    \/ LruSweep
    \/ Tick

LruInit == New(1..(MaxSizeBound + 1), 1..MaxInterval)

LruSpec == LruInit /\ [][LruNext]_vars

\* touch, after the call with frame f returned from machine state m: a Put
\* of a key, or a Get of it that returned a certificate, is a touch and puts
\* the key first; a key leaves when it leaves the map (it can only come back
\* by a Put, first again).
TouchAfter(f, m) ==
    LET hit == \/ f.op = "Put" /\ m.pc # "panic"
               \/ f.op = "Get" /\ m.f.ret # NilCert
        t   == IF hit THEN <<f.host>> \o SelectSeq(touch, LAMBDA x : x # f.host)
                      ELSE touch
    IN  SelectSeq(t, LAMBDA x : x \in DOMAIN m.cache)

\* touch, after a sweep that leaves machine state m.
TouchSwept(m) == SelectSeq(touch, LAMBDA x : x \in DOMAIN m.cache)

\* A call, with last and touch kept.
TouchCall(f) ==
    \E m \in {Result(Caller, f)} :
    /\ Atomic(Caller, f, m)
    /\ last' = LastAfter(f, m)
    /\ touch' = TouchAfter(f, m)
    /\ UNCHANGED <<watch, puts, fresh, purged>>

\* One caller's calls and the sweeper, with last and touch kept.
TouchNext ==
    \/ \E k \in Keys3 : TouchCall(GetFrame(k))
    \/ \E k \in Keys3, t \in Seconds, c \in Certs : TouchCall(PutFrame(k, t, c))
    \/ TouchCall(PurgeFrame)
    \/ SweepTick /\ touch' = TouchSwept(SweepResult)
                 /\ UNCHANGED <<last, watch, puts, fresh, purged>>
    \/ Tick

TouchSpec == SeqInit /\ [][TouchNext]_vars

\* A call, with last, fresh and purged kept.
PurgeCall(f) ==
    \E m \in {Result(Caller, f)} :
    /\ Atomic(Caller, f, m)
    /\ last' = LastAfter(f, m)
    /\ fresh' = FreshAfter(f)
    /\ purged' = (purged \/ f.op = "Purge")
    /\ UNCHANGED <<watch, puts, touch>>

\* One caller's calls and the sweeper, with last, fresh and purged kept.
PurgeNext ==
    \/ \E k \in Keys : PurgeCall(GetFrame(k))
    \/ \E k \in Keys, t \in Seconds, c \in Certs : PurgeCall(PutFrame(k, t, c))
    \/ PurgeCall(PurgeFrame)
    \/ SweepTick /\ UNCH_hist
    \/ Tick

PurgeSpec == TtlInit /\ [][PurgeNext]_vars

\* Puts only, and the sweeper, with last kept.
ClockNext ==
    \/ \E k \in Keys3, t \in Seconds, c \in Certs : SeqCall(PutFrame(k, t, c))
    \/ SweepTick /\ UNCH_hist
    \/ Tick

ClockInit == New(1..MaxSizeBound, {MaxInterval})

ClockSpec == ClockInit /\ [][ClockNext]_vars

----------------------------------------------------------------------------
\* The keys the recency order carries, front to back.
ListKeys == [i \in 1..Len(list) |-> list[i].Value]
Resident == DOMAIN cache
Count == Cardinality(DOMAIN cache)
LockFree == holder = {}

\* C1: whenever the mutex is free, the map's key set is the set of keys in
\* the list, the list holds no key twice, and every entry's listElement is
\* the element of the list that carries the entry's own key.
C1_Bijection ==
    LockFree =>
      /\ Resident = {list[i].Value : i \in 1..Len(list)}
      /\ \A i, j \in 1..Len(list) : i # j => list[i].Value # list[j].Value
      /\ \A k \in Resident :
           /\ cache[k].listElement \in Elems(list)
           /\ cache[k].listElement.Value = k

\* Two entries, reordered by a hit, seen with the mutex free while another
\* caller waits for it.
C1_Witness ==
    /\ LockFree
    /\ Count = 2
    /\ Len(list) = 2
    /\ list[1].id < list[2].id
    /\ pc["g2"] = "lock"

\* C2: for maxSize >= 1, whenever the mutex is free (after every completed
\* Get, Put, Purge or sweep), the map has as many entries as the list has
\* elements, and at most maxSize.
C2_SizeBound ==
    (maxSize >= 1 /\ LockFree) =>
      /\ Count = Len(list)
      /\ Count <= maxSize

\* A full cache of one entry whose element was allocated after an eviction.
C2_Witness ==
    /\ maxSize = 1
    /\ LockFree
    /\ Len(list) = 1
    /\ list[1].id = 2
    /\ Count = 1

\* C10: while Purge has replaced the map and not yet the list, no other
\* goroutine is inside a critical section; when Purge returns both are empty
\* (whatever they were, so a second Purge changes nothing); and a Get that
\* returns a certificate is of a key Put since the last Purge.
C10_PurgeAtomic ==
    /\ \A p \in Callers : pc[p] = "purge_list" => holder = {p}
    /\ \A p \in Callers :
         (pc[p] = "unlock" /\ frame[p].op = "Purge") => (cache = << >> /\ list = << >>)
    /\ \A p \in Callers :
         (pc[p] = "unlock" /\ frame[p].op = "Get" /\ frame[p].ret # NilCert)
           => frame[p].host \in fresh

\* Purge returns on a cache some key was Put into before, with another
\* caller and the sweeper both waiting for the mutex.
C10_Witness ==
    /\ pc["g1"] = "unlock"
    /\ frame["g1"].op = "Purge"
    /\ fresh # {}
    /\ pc["g2"] = "lock"
    /\ pc[Sweeper] = "lock"

----------------------------------------------------------------------------
\* Steps of SeqSpec, TtlSpec and RefreshSpec in which a call returns.
Returned(op, k) == last'.n # last.n /\ last'.op = op /\ last'.host = k

\* C3: Get(k) returns a certificate only if k is resident and the clock's
\* whole second is not after the entry's expiresAt, and then it is the
\* entry's certificate; it returns nil whenever the clock's second is after
\* expiresAt, swept or not; in the second equal to expiresAt it still returns
\* the certificate.
C3_GetExpiry ==
    [][\A k \in Keys3 : Returned("Get", k) =>
         /\ (last'.ret # NilCert) =>
              (k \in Resident /\ Unix(now) <= cache[k].expiresAt /\ last'.ret = cache[k].cert)
         /\ (k \in Resident /\ Unix(now) > cache[k].expiresAt) => (last'.ret = NilCert)
         /\ (k \in Resident /\ Unix(now) = cache[k].expiresAt) => (last'.ret = cache[k].cert)
      ]_vars

\* A Get has just returned the certificate of an entry in the very second of
\* its expiry, some seconds after construction.
C3_Witness ==
    /\ last.op = "Get"
    /\ last.ret # NilCert
    /\ last.host \in Resident
    /\ Unix(now) >= 1
    /\ Unix(now) = cache[last.host].expiresAt

\* C7: a Get that returns a certificate leaves its key at the front of the
\* list; for maxSize >= 2, when the call after such a Get(k) is a Put of a
\* key that is not resident with the list at capacity, k is not the key it
\* evicts; with maxSize = 2 and exactly a and b resident, Get(a) then Put(c)
\* leaves exactly a and c.
C7_RecencyBump ==
    [][/\ \A k \in Keys3 : (Returned("Get", k) /\ last'.ret # NilCert) =>
            (Len(list') >= 1 /\ list'[1].Value = k)
       /\ \A k \in Keys3, c \in Keys3 :
            ( /\ maxSize >= 2
              /\ last.op = "Get" /\ last.host = k /\ last.ret # NilCert
              /\ Returned("Put", c)
              /\ c \notin Resident
              /\ Len(list) >= maxSize )
            => /\ (k \in Resident) => (k \in Resident')
               /\ \A b \in Keys3 :
                    (maxSize = 2 /\ Resident = {k, b} /\ b # k) => (Resident' = {k, c})
      ]_vars

\* maxSize = 2: Get(A) returned a certificate, then Put(C) evicted the other
\* entry (C's element is the third allocated) and A stayed.
C7_Witness ==
    /\ maxSize = 2
    /\ last.op = "Put"
    /\ last.host = "C"
    /\ last.bump = "A"
    /\ ListKeys = <<"C", "A">>
    /\ list[1].id = 3

\* C4, as stated: Put(h, T+1s, v) at real time T, then Get(h) at any real
\* time after T+1s, with no call and no sweep in between, returns nil and
\* makes the count one less.
C4_AnyLaterTime ==
    [][( /\ Returned("Get", WatchKey)
         /\ watch # NoWatch
         /\ watch.ops = 0
         /\ watch.sweeps = 0
         /\ watch.exp = watch.at + Sub
         /\ now > watch.exp )
       => (last'.ret = NilCert /\ Count' = Count - 1)
      ]_vars

\* C4: after Put(h, x, v), a Get(h) with no Put(h) in between, at a time
\* whose whole second is after the whole second of x, returns nil, and the
\* count is one less after it exactly when h was still resident before it;
\* for x = T+1s given at T that covers every time from T+2s on.  A Get in the
\* same whole second as x, with no call and no sweep in between, returns v.
C4_GetExpires ==
    [][Returned("Get", WatchKey) /\ watch # NoWatch =>
         /\ (Unix(now) > Unix(watch.exp)) =>
              /\ last'.ret = NilCert
              /\ (WatchKey \in Resident) => (Count' = Count - 1)
              /\ (WatchKey \notin Resident) => (Count' = Count)
         /\ (watch.exp = watch.at + Sub /\ now >= watch.at + 2 * Sub) =>
              (last'.ret = NilCert)
         /\ (watch.ops = 0 /\ watch.sweeps = 0 /\ Unix(now) <= Unix(watch.exp)) =>
              (last'.ret # NilCert /\ Count' = Count)
      ]_vars

\* Put(h, T+1s, v) at T, no sweep, and then at T+2s or later a Get(h), the
\* only call since, which returned nil and removed h.
C4_Witness ==
    /\ last.op = "Get" /\ last.host = WatchKey /\ last.ret = NilCert
    /\ watch.ops = 1
    /\ watch.sweeps = 0
    /\ watch.exp = watch.at + Sub
    /\ now >= watch.at + 2 * Sub
    /\ WatchKey \notin Resident

C9_Refresh ==
    [][/\ Returned("Put", WatchKey) =>
            /\ WatchKey \in Resident'
            /\ Cardinality({i \in 1..Len(list') : list'[i].Value = WatchKey}) = 1
            /\ list'[1].Value = WatchKey
            /\ cache'[WatchKey].listElement = list'[1]
            /\ cache'[WatchKey].cert = watch'.cert
            /\ cache'[WatchKey].expiresAt = Unix(watch'.exp)
            /\ (WatchKey \in Resident) => (Count' = Count)
       /\ (Returned("Get", WatchKey) /\ watch # NoWatch /\ watch.ops = 0 /\ now <= watch.exp) =>
            (last'.ret = watch.cert)
       /\ (Returned("Get", WatchKey) /\ last'.ret # NilCert) =>
            (watch # NoWatch /\ last'.ret = watch.cert)
      ]_vars

\* Put(h, t1, v1), then Put(h, t2, v2) on the entry still resident, then a
\* Get(h), the only call since, which returned v2.
C9_Witness ==
    /\ watch.old = "v1"
    /\ watch.cert = "v2"
    /\ watch.ops = 1
    /\ last.op = "Get" /\ last.host = WatchKey /\ last.ret = "v2"
    /\ Count = 2

\* C6, as stated: maxSize = 2, Puts of A, B, C and then D, no entry removed
\* by a sweep: D's Put evicts A and leaves exactly B, C and D.
C6_ThreeOfTwo ==
    (maxSize = 2 /\ puts.keys = <<"A", "B", "C", "D">> /\ ~puts.swept)
    => Resident = {"B", "C", "D"}

\* C6: after Puts of distinct keys on a fresh cache, no entry removed by a
\* sweep, the list holds the last min(maxSize, number of Puts) keys, latest
\* first: a Put at capacity evicts the key put longest ago.  With maxSize = 3
\* the Puts of A, B, C, D leave exactly B, C, D; with maxSize = 2 they leave
\* exactly C, D.
C6_LruOrder ==
    LET n == Len(puts.keys) IN
    ~puts.swept =>
      /\ ListKeys = [i \in 1..Min(maxSize, n) |-> puts.keys[n + 1 - i]]
      /\ (maxSize = 3 /\ puts.keys = <<"A", "B", "C", "D">>) => Resident = {"B", "C", "D"}
      /\ (maxSize = 2 /\ puts.keys = <<"A", "B", "C", "D">>) => Resident = {"C", "D"}

\* maxSize = 3: A, B, C, D were put, nothing swept, D's Put evicted A.
C6_Witness ==
    /\ maxSize = 3
    /\ puts.keys = <<"A", "B", "C", "D">>
    /\ ~puts.swept
    /\ ListKeys = <<"D", "C", "B">>
    /\ list[1].id = 4

\* C8, as stated: after each Put of a sequence of Puts with distinct keys on
\* a fresh cache, the count is min(maxSize, number of keys put so far).
C8_ExactCount ==
    [][puts'.keys # puts.keys => Count' = Min(maxSize, Len(puts'.keys))]_vars

\* C8: for Puts with distinct keys on a fresh cache, the count is never more
\* than min(maxSize, number of keys put so far), and it is equal to it for
\* as long as no sweep has removed an entry.
C8_Capacity ==
    /\ Count <= Min(maxSize, Len(puts.keys))
    /\ ~puts.swept => Count = Min(maxSize, Len(puts.keys))

\* Three distinct keys were put in a cache of maxSize 2 and nothing was
\* swept: two are resident.
C8_Witness ==
    /\ maxSize = 2
    /\ Len(puts.keys) = 3
    /\ ~puts.swept
    /\ Count = 2
    /\ now >= 1

\* The goroutines between c.Lock() and c.Unlock().
InCS(p) == pc[p] \notin {"idle", "lock", "recv", "crashed"}

\* The call whose critical section p is in, applied in one step to the
\* structures as they were when p took the mutex, reading the clock as t.
Sequential(p, t) ==
    Run([cache |-> snap.cache, list |-> snap.list, f |-> snap.f,
         pc |-> EntryLabel(snap.f)],
        [maxSize |-> maxSize, now |-> t, pin |-> Pins(p)])

\* A sweep in one step on the structures as they were when the sweeper took
\* the mutex, reading the clock as tm[k] when it tests key k.
SequentialSweep(tm) ==
    LET keep == {k \in DOMAIN snap.cache : ~Expired(tm[k], snap.cache[k])} IN
    [cache |-> [k \in keep |-> snap.cache[k]],
     list  |-> SelectSeq(snap.list, LAMBDA x : x.Value \in keep)]

\* C11: at most one goroutine is between Lock and Unlock, and it holds the
\* mutex; when a Get, Put or Purge reaches its unlock (or Put's panic
\* unwinds), cache, list and the result are what the whole call gives in one
\* step on the structures as they were when it took the mutex, for a clock
\* reading between then and now; and when a sweep has visited every key they
\* are what a sweep in one step gives.  So the execution is the sequential
\* one in the order of lock acquisition.
C11_Linearizable ==
    /\ Cardinality({p \in Procs : InCS(p)}) <= 1
    /\ \A p \in Procs : InCS(p) => holder = {p}
    /\ \A p \in Callers : pc[p] \in {"unlock", "panic"} =>
         \E t \in snap.now..now :
            LET m == Sequential(p, t) IN
            /\ m.pc = pc[p]
            /\ m.cache = cache
            /\ m.list = list
            /\ m.f.ret = frame[p].ret
    /\ (pc[Sweeper] = "range" /\ frame[Sweeper].todo \cap DOMAIN cache = {}) =>
         \E tm \in [DOMAIN snap.cache -> snap.now..now] :
            LET m == SequentialSweep(tm) IN m.cache = cache /\ m.list = list

\* A Get that found its entry is about to unlock, the clock has advanced
\* since it took the mutex, and the other caller and the sweeper are both
\* blocked in Lock.
C11_Witness ==
    /\ pc["g1"] = "unlock"
    /\ frame["g1"].op = "Get"
    /\ frame["g1"].ret # NilCert
    /\ snap.now < now
    /\ Count = 2
    /\ pc["g2"] = "lock"
    /\ pc[Sweeper] = "lock"

\* C12: the mutex is held exactly by the goroutine between Lock and Unlock,
\* so it is free whenever every goroutine is outside its critical section,
\* whichever way the call ended; the holder always has a next statement;
\* and under Fairness every call blocked in Lock returns (or, for Put on a
\* cache of maxSize 0, ends in its panic with the mutex released).
C12_Completes ==
    /\ [](holder = {p \in Procs : InCS(p)})
    /\ [](\A p \in Callers : InCS(p) => pc[p] \in StepLabels \cup {"unlock", "panic"})
    /\ [](InCS(Sweeper) => pc[Sweeper] \in {"range", "sweep_remove", "sweep_delete"})
    /\ \A p \in Callers : (pc[p] = "lock") ~> (pc[p] \in {"idle", "crashed"})

\* A Get that took its early return (no entry for the key) has released the
\* mutex while the other caller and the sweeper were blocked in Lock.
C12_Witness ==
    /\ pc["g1"] = "idle"
    /\ holder = {}
    /\ pc["g2"] = "lock"
    /\ pc[Sweeper] = "lock"
    /\ Count = 1
    /\ now = Sub

\* The entries of map mp other than those of the keys in ks.
Without(mp, ks) == [k \in DOMAIN mp \ ks |-> mp[k]]

\* The critical section of the call with frame f, run from the present
\* state up to the statement at label at (or to its end).
RECURSIVE RunTo(_, _, _)
RunTo(m, cx, at) ==
    IF m.pc = at \/ m.pc \notin StepLabels THEN m
    ELSE LET n == Step(m, cx) IN RunTo(n, cx, at)

PutUpTo(k, t, c, at) ==
    RunTo([cache |-> cache, list |-> list, f |-> PutFrame(k, t, c), pc |-> "put_lookup"],
          Context(Caller), at)

\* C13: in a Put of a key that is not resident (maxSize >= 1): with fewer
\* than maxSize entries nothing is removed; with maxSize entries the list is
\* not empty and, by the time the new element is pushed, exactly the back
\* element has left the list and its key the map; then the new element goes
\* to the front and the new entry into the map, every other entry as it was.
C13_EvictTail ==
    [][\A k \in Keys3 :
         (Returned("Put", k) /\ k \notin Resident /\ maxSize >= 1) =>
           LET n    == Len(list)
               full == n >= maxSize
               rest == IF full THEN SubSeq(list, 1, n - 1) ELSE list
               gone == IF full THEN {list[n].Value} ELSE {}
               kept == Without(cache, gone)
           IN  /\ full => (n = maxSize /\ n >= 1 /\ Count = n)
               /\ \A t \in Seconds, c \in Certs :
                    LET m == PutUpTo(k, t, c, "put_push") IN
                    m.pc = "put_push" /\ m.list = rest /\ m.cache = kept
               /\ list' = <<cache'[k].listElement>> \o rest
               /\ list'[1].Value = k
               /\ Without(cache', {k}) = kept
               /\ Resident' = DOMAIN kept \cup {k}
               /\ Count' = IF full THEN maxSize ELSE n + 1
      ]_vars

\* maxSize = 2: with A and B resident and untouched, Put(C) has evicted A,
\* the back element, and put C in front of B.
C13_Witness ==
    /\ maxSize = 2
    /\ last.op = "Put" /\ last.host = "C" /\ last.bump = "nil"
    /\ ListKeys = <<"C", "B">>
    /\ list[1].id = 3
    /\ list[2].id = 2

\* C14: the list carries the resident keys in the order of their last
\* touch, latest first, where a touch is a Put of the key or a Get of it that
\* returned a certificate; so a Put of a new key at capacity (maxSize >= 1)
\* removes exactly the resident key touched longest ago.
C14_TouchOrder ==
    /\ [](ListKeys = touch)
    /\ [][\A k \in Keys3 :
            (Returned("Put", k) /\ k \notin Resident /\ maxSize >= 1 /\ Count >= maxSize)
              => (touch # << >> /\ Resident \ Resident' = {touch[Len(touch)]})
         ]_vars

\* B was put after A but A was then touched by a Get; Put(C) at capacity has
\* evicted B, the key touched longest ago.
C14_Witness ==
    /\ maxSize = 2
    /\ last.op = "Put" /\ last.host = "C" /\ last.bump = "A"
    /\ touch = <<"C", "A">>
    /\ list[2].id = 1

\* C15: a Put of a resident key h, the cache at capacity or not, the h entry
\* expired or not, removes nothing: the resident keys and every other entry
\* stay as they were, h's entry gets the certificate and expiry given and
\* keeps its list element, which moves to the front, the other elements
\* keeping their order; and a Get(h) that is the next call, in a second not
\* after that of the new expiry, returns the new certificate.
C15_RefreshFrame ==
    [][/\ (Returned("Put", WatchKey) /\ WatchKey \in Resident) =>
            LET el == cache[WatchKey].listElement IN
            /\ Resident' = Resident
            /\ Count' = Count
            /\ \A k \in Resident \ {WatchKey} : cache'[k] = cache[k]
            /\ cache'[WatchKey] = [cert |-> watch'.cert,
                                   expiresAt |-> Unix(watch'.exp),
                                   listElement |-> el]
            /\ list' = <<el>> \o SelectSeq(list, LAMBDA x : x # el)
            /\ Len(list') = Len(list)
       /\ ( /\ Returned("Get", WatchKey)
            /\ watch # NoWatch /\ watch.old # NilCert /\ watch.ops = 0
            /\ Unix(now) <= Unix(watch.exp) )
          => (last'.ret = watch.cert)
      ]_vars

\* maxSize = 2 and two entries: h's entry, holding v1 and already expired,
\* was replaced by Put(h, t, v2), and the Get(h) after it returned v2.
C15_Witness ==
    /\ maxSize = 2
    /\ Count = 2
    /\ watch.old = "v1"
    /\ watch.cert = "v2"
    /\ watch.late
    /\ watch.ops = 1
    /\ last.op = "Get" /\ last.host = WatchKey /\ last.ret = "v2"
    /\ ListKeys = <<"A", "B">>

\* The sweeper has visited every key and is about to unlock.
SweepDone == pc[Sweeper] = "range" /\ frame[Sweeper].todo \cap DOMAIN cache = {}

\* C16, as stated: there is one current time of the tick, between the
\* moment the sweeper took the mutex and now, such that the sweep has removed
\* exactly the entries whose expiresAt is less than that time's whole second.
C16_OneInstant ==
    SweepDone =>
      \E t \in snap.now..now :
         Resident = {k \in DOMAIN snap.cache : ~(snap.cache[k].expiresAt < Unix(t))}

\* C16: the sweep tests each entry against the clock as it reads it for that
\* entry.  When it has visited every key: every entry that had expired when
\* the sweeper took the mutex is gone, every entry not expired now is
\* resident, nothing was added, every resident entry is as it was, and the
\* list is the former list without the elements of the removed keys; when
\* the clock's whole second did not change during the sweep, the removed
\* entries are exactly those with expiresAt less than that second.  The
\* sweep visits only keys that are in the map, removes elements that are in
\* the list, and never panics.
C16_SweepFrame ==
    /\ SweepDone =>
         /\ Resident \subseteq DOMAIN snap.cache
         /\ \A k \in DOMAIN snap.cache :
              /\ Expired(snap.now, snap.cache[k]) => k \notin Resident
              /\ ~Expired(now, snap.cache[k]) => k \in Resident
         /\ \A k \in Resident : cache[k] = snap.cache[k]
         /\ list = SelectSeq(snap.list, LAMBDA x : x.Value \in Resident)
         /\ Unix(snap.now) = Unix(now) =>
              Resident = {k \in DOMAIN snap.cache : ~(snap.cache[k].expiresAt < Unix(now))}
    /\ pc[Sweeper] \in {"recv", "lock", "range", "sweep_remove", "sweep_delete"}
    /\ InCS(Sweeper) => frame[Sweeper].todo \subseteq DOMAIN snap.cache
    /\ pc[Sweeper] = "sweep_remove" =>
         /\ frame[Sweeper].host \in Resident
         /\ frame[Sweeper].entry = cache[frame[Sweeper].host]
         /\ frame[Sweeper].entry.listElement \in Elems(list)

\* A second began during a sweep of two entries: the one tested before it
\* stayed, though expired by now; the one tested after it was removed.
C16_Witness ==
    /\ SweepDone
    /\ Unix(snap.now) < Unix(now)
    /\ Cardinality(DOMAIN snap.cache) = 2
    /\ Count = 1
    /\ \E k \in Resident : Expired(now, cache[k])
    /\ Len(list) = 1

\* C17: under ExpireFairness, whenever an entry is resident and expired,
\* later the mutex is free with its key in neither the map nor the list,
\* whether or not any caller calls Get or Put again.
C17_ExpiredRemoved ==
    \A k \in Keys :
      (k \in Resident /\ Expired(now, cache[k]))
        ~> (MutexFree /\ k \notin Resident /\ \A i \in 1..Len(list) : list[i].Value # k)

\* Past the last instant counted, with both callers idle, a sweep has found
\* two expired entries and removed both.
C17_Witness ==
    /\ SweepDone
    /\ Cardinality(DOMAIN snap.cache) = 2
    /\ Count = 0
    /\ list = << >>
    /\ now = Sub
    /\ tickC = 1
    /\ pc["g1"] = "idle"
    /\ pc["g2"] = "idle"

\* A sweep has run in this step (it has taken the tick from ticker.C).
Swept == tickC = 1 /\ tickC' = 0

C19_GetFrame ==
    [][\A k \in Keys3 : Returned("Get", k) =>
         /\ (k \notin Resident) =>
              (cache' = cache /\ list' = list /\ last'.ret = NilCert)
         /\ (k \in Resident /\ ~Expired(now, cache[k])) =>
              /\ cache' = cache
              /\ list' = <<cache[k].listElement>>
                           \o SelectSeq(list, LAMBDA x : x # cache[k].listElement)
              /\ last'.ret = cache[k].cert
         /\ (k \in Resident /\ Expired(now, cache[k])) =>
              /\ cache' = Without(cache, {k})
              /\ list' = SelectSeq(list, LAMBDA x : x # cache[k].listElement)
              /\ Len(list') = Len(list) - 1
              /\ last'.ret = NilCert
      ]_vars

\* A was Put before B, and a Get(A), the call after a Get(B) that also
\* returned a certificate, has moved A's element in front of B's.
C19_Witness ==
    /\ last.op = "Get" /\ last.host = "A" /\ last.ret # NilCert
    /\ last.bump = "B"
    /\ ListKeys = <<"A", "B">>
    /\ list[1].id = 1
    /\ list[2].id = 2
    /\ cache["A"].expiresAt # cache["B"].expiresAt

\* Put(k, t, c) from the present list and the present map with the
\* expiries ex in place of its own, the clock reading t2.
PutWith(k, t, c, ex, t2) ==
    Run([cache |-> [h \in DOMAIN cache |-> [cache[h] EXCEPT !.expiresAt = ex[h]]],
         list |-> list, f |-> PutFrame(k, t, c), pc |-> "put_lookup"],
        [maxSize |-> maxSize, now |-> t2, pin |-> Pins(Caller)])

\* What a machine state holds apart from the expiries.
Shape(m) ==
    [pc |-> m.pc, list |-> m.list,
     cache |-> [h \in DOMAIN m.cache |->
                  [cert |-> m.cache[h].cert, listElement |-> m.cache[h].listElement]]]

\* C20: from every reachable state, Put(k, t, c) leaves the same list, the
\* same keys, certificates and elements for every clock reading, every
\* expiry of every resident entry and every t; the expiries it leaves are t's
\* second for k and the others' own.  And in the Puts made: a Put of a new
\* key at capacity evicts the back element's key, live or not, whatever else
\* has expired, and the key put is resident afterwards, t in the past or not.
C20_ClockFree ==
    /\ [](\A k \in Keys3, c \in Certs :
            LET here == Shape(Result(Caller, PutFrame(k, 0, c))) IN
            \A t \in Seconds, t2 \in Times, ex \in [Resident -> 0..Unix(MaxTime)] :
               LET m == PutWith(k, t, c, ex, t2) IN
               /\ Shape(m) = here
               /\ \A h \in DOMAIN m.cache :
                    m.cache[h].expiresAt = IF h = k THEN Unix(t) ELSE ex[h])
    /\ [][\A k \in Keys3 : Returned("Put", k) =>
            /\ k \in Resident'
            /\ list'[1].Value = k
            /\ (k \notin Resident /\ Count >= maxSize) =>
                 (Resident \ Resident' = {list[Len(list)].Value})
         ]_vars

\* maxSize = 2: Put(C), with an expiry already in the past, found A at the
\* back and B, already expired, in front of it; it evicted A and kept B.
C20_Witness ==
    /\ maxSize = 2
    /\ last.op = "Put" /\ last.host = "C"
    /\ ListKeys = <<"C", "B">>
    /\ list[1].id = 3
    /\ list[2].id = 2
    /\ Expired(now, cache["B"])
    /\ Expired(now, cache["C"])
    /\ tickC = 0

====
